---- MODULE Spec2Model ----
(***************************************************************************)
(* Model of the generic Monte Carlo Tree Search engine (mcts/src/lib.rs)   *)
(* instantiated with the Connect-4 game (c4ai/src/main.rs).                *)
(*                                                                         *)
(* Representation choices                                                  *)
(*  - a u64 bitboard is the set of its set bit positions; `a | b` is set   *)
(*    union, `(board ^ win) & win == 0` is `win \subseteq board`;          *)
(*  - Option<T> is a sequence of length 0 (None) or 1 (Some);              *)
(*  - an f64 is an exact rational [n, d] in lowest terms with d > 0.  All  *)
(*    playout results are 0, 1/2 or 1 and every node value is a running    *)
(*    mean of such results, so no NaN or infinity arises;                  *)
(*  - the random source is a nondeterministic choice: an operation that    *)
(*    draws random numbers yields the set of results over all draws;       *)
(*  - a panic (failed unwrap / assert!) sets `panicked`; the process is    *)
(*    then dead and no further operation runs.                             *)
(***************************************************************************)
EXTENDS Integers, Sequences, FiniteSets, TLC

(***************************************************************************)
(* Option                                                                  *)
(***************************************************************************)
None == <<>>

Some(x) == <<x>>

(***************************************************************************)
(* Player                                                                  *)
(***************************************************************************)
P1 == "P1"

P2 == "P2"

Player == {P1, P2}

other(p) == IF p = P1 THEN P2 ELSE P1

(***************************************************************************)
(* f64 as exact rationals                                                  *)
(***************************************************************************)
RECURSIVE GCD(_, _)
GCD(a, b) == IF b = 0 THEN a ELSE GCD(b, a % b)

Rat(n, d) == LET g == GCD(n, d) IN [n |-> n \div g, d |-> d \div g]

Zero == [n |-> 0, d |-> 1]

Half == [n |-> 1, d |-> 2]

One == [n |-> 1, d |-> 1]

RatAdd(a, b) == Rat(a.n * b.d + b.n * a.d, a.d * b.d)

RatSub(a, b) == Rat(a.n * b.d - b.n * a.d, a.d * b.d)

RatLeq(a, b) == a.n * b.d <= b.n * a.d

f64_cmp(a, b) ==
    IF a.n * b.d < b.n * a.d THEN "Less"
    ELSE IF a.n * b.d = b.n * a.d THEN "Equal"
    ELSE "Greater"

(***************************************************************************)
(* Connect-4 (c4ai/src/main.rs)                                            *)
(***************************************************************************)
streak == 4

rows == 6

cols == 7

col_win == {0, 7, 14, 21}

row_win == {0, 1, 2, 3}

d1_win == {0, 8, 16, 24}

d2_win == {3, 9, 15, 21}

Shl(win, s) == {b + s : b \in win}

C4_initial == [xs |-> {}, os |-> {}, next |-> P1]

C4_get(s, row, col) ==
    IF (row * 7 + col) \in s.os THEN "O"
    ELSE IF (row * 7 + col) \in s.xs THEN "X"
    ELSE "Blank"

\* mutant of C4_play: the piece is always written to xs
C4_play_always_x(s, row, col, player) ==
    [s EXCEPT !.xs = @ \cup {row * 7 + col}]

C4_play(s, row, col, player) ==
    IF player = P1 THEN [s EXCEPT !.xs = @ \cup {row * 7 + col}]
    ELSE [s EXCEPT !.os = @ \cup {row * 7 + col}]

C4_full(s) == Cardinality(s.xs \cup s.os) = 42

\* mutant of C4_has_won: rows and diagonals starting in the last possible
\* column are not tested
C4_has_won_narrow(s, player) ==
    LET board == IF player = P1 THEN s.xs ELSE s.os
    IN  \/ \E sh \in 0 .. (cols * (rows - streak + 1) - 1) :
              Shl(col_win, sh) \subseteq board
        \/ \E r \in 0 .. (rows - 1), c \in 0 .. (cols - streak - 1) :
              Shl(row_win, r * 7 + c) \subseteq board
        \/ \E r \in 0 .. (rows - streak), c \in 0 .. (cols - streak - 1) :
              \/ Shl(d1_win, r * 7 + c) \subseteq board
              \/ Shl(d2_win, r * 7 + c) \subseteq board

C4_has_won(s, player) ==
    LET board == IF player = P1 THEN s.xs ELSE s.os
    IN  \/ \E sh \in 0 .. (cols * (rows - streak + 1) - 1) :
              Shl(col_win, sh) \subseteq board
        \/ \E r \in 0 .. (rows - 1), c \in 0 .. (cols - streak) :
              Shl(row_win, r * 7 + c) \subseteq board
        \/ \E r \in 0 .. (rows - streak), c \in 0 .. (cols - streak) :
              \/ Shl(d1_win, r * 7 + c) \subseteq board
              \/ Shl(d2_win, r * 7 + c) \subseteq board

C4_next_player(s) == s.next

\* C4Actions: the u8 `bitvec` as the set of its set bits
C4_valid_actions(s, player) ==
    IF ~C4_has_won(s, P1) /\ ~C4_has_won(s, P2)
    THEN {i \in 0 .. 6 : C4_get(s, 0, i) = "Blank"}
    ELSE {}

Actions_default == {}

Actions_len(a) == Cardinality(a)

\* mutant of Actions_next: the highest column is returned first
Actions_next_highest(a) ==
    IF \E i \in a : i < 7
    THEN LET ans == CHOOSE i \in a : \A j \in a : j <= i
         IN  [item |-> Some(ans), rest |-> a \ {ans}]
    ELSE [item |-> None, rest |-> a]

\* mutant of Actions_next: the item is returned but stays in the iterator
Actions_next_keeps(a) ==
    IF \E i \in a : i < 7
    THEN LET ans == CHOOSE i \in a : \A j \in a : i <= j
         IN  [item |-> Some(ans), rest |-> a]
    ELSE [item |-> None, rest |-> a]

\* Iterator::next: [item |-> Option, rest |-> the iterator afterwards]
Actions_next(a) ==
    IF \E i \in a : i < 7
    THEN LET ans == CHOOSE i \in a : \A j \in a : i <= j
         IN  [item |-> Some(ans), rest |-> a \ {ans}]
    ELSE [item |-> None, rest |-> a]

\* Iterator::nth(k): k calls of next, then the item of one more
RECURSIVE Actions_nth(_, _)
Actions_nth(a, k) ==
    IF k = 0 THEN Actions_next(a).item
    ELSE Actions_nth(Actions_next(a).rest, k - 1)

(***************************************************************************)
(* Outcome                                                                 *)
(***************************************************************************)
P1Win == [tag |-> "P1Win", actions |-> {}]

P2Win == [tag |-> "P2Win", actions |-> {}]

Draw == [tag |-> "Draw", actions |-> {}]

OutcomeActions(a) == [tag |-> "Actions", actions |-> a]

\* mutant of Outcome_value: a win counts 1 whoever the perspective player is
Outcome_value_any_win(o, player) ==
    IF o.tag = "P1Win" \/ o.tag = "P2Win" THEN One ELSE Half

Outcome_value(o, player) ==
    IF o.tag = "P1Win" /\ player = P1 THEN One
    ELSE IF o.tag = "P1Win" /\ player = P2 THEN Zero
    ELSE IF o.tag = "P2Win" /\ player = P1 THEN Zero
    ELSE IF o.tag = "P2Win" /\ player = P2 THEN One
    ELSE Half

Outcome_from_player(player) == IF player = P1 THEN P1Win ELSE P2Win

\* mutant of Outcome_as_actions: a decisive outcome yields every column
Outcome_as_actions_every(o) ==
    IF o.tag = "Actions" THEN o.actions ELSE 0 .. 6

Outcome_as_actions(o) ==
    IF o.tag = "Actions" THEN o.actions ELSE Actions_default

\* C4State::do_action: [state |-> the state afterwards, outcome |-> returned];
\* t is self after the piece is played, computed once
C4_do_action(s, col) ==
    LET blank == {r \in 0 .. 5 : C4_get(s, r, col) = "Blank"}
    IN  IF blank = {} THEN [state |-> s, outcome |-> Draw]
        ELSE LET row == CHOOSE r \in blank : \A q \in blank : q <= r
                 player == s.next
             IN  CHOOSE res \in
                     {[state |-> t,
                       outcome |->
                          IF C4_has_won(t, player)
                          THEN Outcome_from_player(player)
                          ELSE IF C4_full(t) THEN Draw
                          ELSE OutcomeActions(C4_valid_actions(t, t.next))]
                      : t \in {[C4_play(s, row, col, player) EXCEPT
                                  !.next = other(s.next)]}} : TRUE

\* State::outcome (default trait method)
State_outcome(s) ==
    IF C4_has_won(s, P1) THEN P1Win
    ELSE IF C4_has_won(s, P2) THEN P2Win
    ELSE LET actions == C4_valid_actions(s, C4_next_player(s))
         IN  IF Actions_len(actions) = 0 THEN Draw
             ELSE OutcomeActions(actions)

(***************************************************************************)
(* State::playout: the set of values it can return over all random draws.  *)
(* [ok |-> FALSE] stands for the panic of Range::new(0, 0) on an empty     *)
(* action set (rand asserts low < high).                                   *)
(***************************************************************************)
RECURSIVE State_playout(_, _, _)
State_playout(s, player, outcome) ==
    IF outcome.tag # "Actions"
    THEN {[ok |-> TRUE, val |-> Outcome_value(outcome, player)]}
    ELSE IF Actions_len(outcome.actions) = 0
    THEN {[ok |-> FALSE, val |-> Zero]}
    ELSE UNION {
             LET action == Actions_nth(outcome.actions, k)[1]
                 r == C4_do_action(s, action)
             IN  State_playout(r.state, player, r.outcome)
             : k \in 0 .. (Actions_len(outcome.actions) - 1)}

(***************************************************************************)
(* Node                                                                    *)
(***************************************************************************)
\* mutant of Node_new: the node is given the other player as just_acted
Node_new_other_player(action, just_acted, state, outcome, perspective) ==
    {[ok |-> p.ok,
      node |-> [action |-> action,
                visits |-> 1,
                value |-> p.val,
                untried_actions |-> Outcome_as_actions(outcome),
                children |-> <<>>,
                just_acted |-> other(just_acted)]]
     : p \in State_playout(state, perspective, outcome)}

\* Node::new: one node per possible playout result
Node_new(action, just_acted, state, outcome, perspective) ==
    {[ok |-> p.ok,
      node |-> [action |-> action,
                visits |-> 1,
                value |-> p.val,
                untried_actions |-> Outcome_as_actions(outcome),
                children |-> <<>>,
                just_acted |-> just_acted]]
     : p \in State_playout(state, perspective, outcome)}

\* floor(ln(2 * visits) * 10^8), visits in 1 .. 20
LnTable ==
    <<69314718, 138629436, 179175946, 207944154, 230258509, 248490664,
      263905732, 277258872, 289037175, 299573227, 309104245, 317805383,
      325809653, 333220451, 340119738, 346573590, 352636052, 358351893,
      363758615, 368887945>>

RECURSIVE ISqrtBetween(_, _, _)
ISqrtBetween(n, lo, hi) ==
    IF lo >= hi THEN lo
    ELSE LET mid == (lo + hi + 1) \div 2
         IN  IF mid * mid <= n THEN ISqrtBetween(n, mid, hi)
             ELSE ISqrtBetween(n, lo, mid - 1)

\* floor of the square root, 0 <= n < 2^30
ISqrt(n) == ISqrtBetween(n, 0, 32767)

\* mutant of weight: the child's value is taken as it is whoever moved
weight_ignores_max(c, visits, max) ==
    RatAdd(c.value, Rat(ISqrt(LnTable[visits] \div c.visits), 10000))

\* the closure `weight` of choose_child; the exploration term
\* sqrt(ln(2 * visits) / c.visits) is rounded down to a multiple of 10^-4.
\* Two children with the same visits get the same term, so equal weights
\* stay equal; unequal weights of the trees of this model differ by more
\* than 10^-4, so the rounding changes no comparison.
weight(c, visits, max) ==
    RatAdd(IF max THEN c.value ELSE RatSub(One, c.value),
           Rat(ISqrt(LnTable[visits] \div c.visits), 10000))

\* Iterator::max_by over keys: index of the element it returns (0 if empty).
\* The fold keeps the current element only if it compares Greater than the
\* next one.
RECURSIVE MaxByFrom(_, _, _)
MaxByFrom(keys, cur, i) ==
    IF i > Len(keys) THEN cur
    ELSE MaxByFrom(keys,
                   IF f64_cmp(keys[cur], keys[i]) = "Greater" THEN cur ELSE i,
                   i + 1)

\* mutant of max_by: the fold keeps the current element unless it compares
\* Less than the next one (the first of several maxima is returned)
RECURSIVE MaxByFromFirst(_, _, _)
MaxByFromFirst(keys, cur, i) ==
    IF i > Len(keys) THEN cur
    ELSE MaxByFromFirst(keys,
                        IF f64_cmp(keys[cur], keys[i]) = "Less" THEN i
                        ELSE cur,
                        i + 1)

max_by_first(keys) ==
    IF Len(keys) = 0 THEN 0 ELSE MaxByFromFirst(keys, 1, 2)

max_by(keys) == IF Len(keys) = 0 THEN 0 ELSE MaxByFrom(keys, 1, 2)

\* Node::choose_child: index of the chosen child (0 for None)
choose_child(self, max) ==
    max_by([i \in 1 .. Len(self.children) |->
               weight(self.children[i], self.visits, max)])

\* mutant of best_action: the node's own action instead of the child's
best_action_own(self) ==
    LET i == max_by([j \in 1 .. Len(self.children) |->
                        self.children[j].value])
    IN  IF i = 0 THEN None ELSE self.action

\* Node::best_action
best_action(self) ==
    LET i == max_by([j \in 1 .. Len(self.children) |->
                        self.children[j].value])
    IN  IF i = 0 THEN None ELSE self.children[i].action

\* Node::min_depth
RECURSIVE min_depth(_)
min_depth(self) ==
    LET ds == {min_depth(self.children[i]) + 1 : i \in 1 .. Len(self.children)}
    IN  IF ds = {} THEN 0 ELSE CHOOSE d \in ds : \A e \in ds : d <= e

\* Node::max_depth: the children are mapped with min_depth, as in the source
max_depth(self) ==
    LET ds == {min_depth(self.children[i]) + 1 : i \in 1 .. Len(self.children)}
    IN  IF ds = {} THEN 0 ELSE CHOOSE d \in ds : \A e \in ds : e <= d

\* mutant of Mean: divides by visits instead of visits + 1
Mean_div_visits(value, visits, val) ==
    Rat(value.n * visits * val.d + val.n * value.d,
        value.d * val.d * visits)

\* mutant of Mean: the plain average of the old value and the result
Mean_unweighted(value, visits, val) ==
    Rat(value.n * val.d + val.n * value.d, 2 * value.d * val.d)

\* the running mean (value * visits + val) / (visits + 1)
Mean(value, visits, val) ==
    Rat(value.n * visits * val.d + val.n * value.d,
        value.d * val.d * (visits + 1))

\* mutant of select: a node without untried actions and without children
\* returns its value without counting the visit
RECURSIVE select_terminal_uncounted(_, _, _)
select_terminal_uncounted(self, state0, player) ==
    LET state == IF self.action = None THEN state0
                 ELSE C4_do_action(state0, self.action[1]).state
        nx == Actions_next(self.untried_actions)
    IN  IF nx.item = None
        THEN IF Len(self.children) = 0
             THEN {[ok |-> TRUE, node |-> self, val |-> self.value]}
             ELSE LET max == player # self.just_acted
                      i == choose_child(self, max)
                  IN  {[ok |-> r.ok,
                        node |-> [self EXCEPT
                                    !.children[i] = r.node,
                                    !.value = Mean(self.value, self.visits,
                                                   r.val),
                                    !.visits = @ + 1],
                        val |-> r.val]
                       : r \in select_terminal_uncounted(self.children[i],
                                                         state, player)}
        ELSE LET res == C4_do_action(state, nx.item[1])
             IN  {[ok |-> c.ok,
                   node |-> [self EXCEPT
                               !.untried_actions = nx.rest,
                               !.children = Append(@, c.node),
                               !.value = Mean(self.value, self.visits,
                                              c.node.value),
                               !.visits = @ + 1],
                   val |-> c.node.value]
                  : c \in Node_new(nx.item, other(self.just_acted),
                                   res.state, res.outcome, player)}

\* mutant of select: a node that descends into a child averages in the
\* child's value instead of the result the child returned
RECURSIVE select_child_value(_, _, _)
select_child_value(self, state0, player) ==
    LET state == IF self.action = None THEN state0
                 ELSE C4_do_action(state0, self.action[1]).state
        nx == Actions_next(self.untried_actions)
    IN  IF nx.item = None
        THEN IF Len(self.children) = 0
             THEN {[ok |-> TRUE,
                    node |-> [self EXCEPT !.visits = @ + 1],
                    val |-> self.value]}
             ELSE LET max == player # self.just_acted
                      i == choose_child(self, max)
                  IN  {[ok |-> r.ok,
                        node |-> [self EXCEPT
                                    !.children[i] = r.node,
                                    !.value = Mean(self.value, self.visits,
                                                   r.node.value),
                                    !.visits = @ + 1],
                        val |-> r.node.value]
                       : r \in select_child_value(self.children[i],
                                                  state, player)}
        ELSE LET res == C4_do_action(state, nx.item[1])
             IN  {[ok |-> c.ok,
                   node |-> [self EXCEPT
                               !.untried_actions = nx.rest,
                               !.children = Append(@, c.node),
                               !.value = Mean(self.value, self.visits,
                                              c.node.value),
                               !.visits = @ + 1],
                   val |-> c.node.value]
                  : c \in Node_new(nx.item, other(self.just_acted),
                                   res.state, res.outcome, player)}

\* mutant of select: the node's own action is not applied to the state
RECURSIVE select_no_apply(_, _, _)
select_no_apply(self, state0, player) ==
    LET state == state0
        nx == Actions_next(self.untried_actions)
    IN  IF nx.item = None
        THEN IF Len(self.children) = 0
             THEN {[ok |-> TRUE,
                    node |-> [self EXCEPT !.visits = @ + 1],
                    val |-> self.value]}
             ELSE LET max == player # self.just_acted
                      i == choose_child(self, max)
                  IN  {[ok |-> r.ok,
                        node |-> [self EXCEPT
                                    !.children[i] = r.node,
                                    !.value = Mean(self.value, self.visits,
                                                   r.val),
                                    !.visits = @ + 1],
                        val |-> r.val]
                       : r \in select_no_apply(self.children[i], state,
                                               player)}
        ELSE LET res == C4_do_action(state, nx.item[1])
             IN  {[ok |-> c.ok,
                   node |-> [self EXCEPT
                               !.untried_actions = nx.rest,
                               !.children = Append(@, c.node),
                               !.value = Mean(self.value, self.visits,
                                              c.node.value),
                               !.visits = @ + 1],
                   val |-> c.node.value]
                  : c \in Node_new(nx.item, other(self.just_acted),
                                   res.state, res.outcome, player)}

\* Node::select: the set of [ok, node, val] it can produce over all random
\* draws; node is self afterwards, val the returned value, ok = FALSE a panic
RECURSIVE select(_, _, _)
select(self, state0, player) ==
    LET state == IF self.action = None THEN state0
                 ELSE C4_do_action(state0, self.action[1]).state
        nx == Actions_next(self.untried_actions)
    IN  IF nx.item = None
        THEN IF Len(self.children) = 0
             THEN {[ok |-> TRUE,
                    node |-> [self EXCEPT !.visits = @ + 1],
                    val |-> self.value]}
             ELSE LET max == player # self.just_acted
                      i == choose_child(self, max)
                  IN  {[ok |-> r.ok,
                        node |-> [self EXCEPT
                                    !.children[i] = r.node,
                                    !.value = Mean(self.value, self.visits,
                                                   r.val),
                                    !.visits = @ + 1],
                        val |-> r.val]
                       : r \in select(self.children[i], state, player)}
        ELSE LET res == C4_do_action(state, nx.item[1])
             IN  {[ok |-> c.ok,
                   node |-> [self EXCEPT
                               !.untried_actions = nx.rest,
                               !.children = Append(@, c.node),
                               !.value = Mean(self.value, self.visits,
                                              c.node.value),
                               !.visits = @ + 1],
                   val |-> c.node.value]
                  : c \in Node_new(nx.item, other(self.just_acted),
                                   res.state, res.outcome, player)}

(***************************************************************************)
(* MCTree                                                                  *)
(***************************************************************************)
\* bounds of the model
MaxIters == 7

MaxAdvances == 3

\* u8 actions offered to MCTree::do_action (get_column returns 0 .. 6)
Action == 0 .. 6

\* Construct-time positions: each is reached from C4State::initial() by the
\* listed columns, so every one is a position of a real game.
\*   StartA: X to move, columns 0 and 3 open, column 0 wins for X
\*   StartB: X to move, columns 0, 1 and 4 open, column 0 wins for X
\*   StartC: StartA followed by column 0, X has won
\*   StartD: O to move, columns 1, 2 and 4 open, five blank cells
StartA ==
    <<3, 4, 6, 4, 3, 3, 2, 1, 4, 2, 6, 0, 4, 4, 2, 0, 2, 1, 6, 3, 5, 6, 0, 1,
      6, 2, 5, 5, 6, 4, 1, 2, 1, 5, 5, 1, 0, 5>>

StartB ==
    <<2, 6, 0, 1, 2, 3, 3, 6, 4, 2, 3, 3, 6, 5, 6, 0, 5, 4, 5, 5, 2, 6, 6, 3,
      5, 4, 3, 0, 2, 5, 0, 2, 1, 1, 0, 1, 1, 4>>

StartC == StartA \o <<0>>

StartD ==
    <<3, 6, 0, 3, 3, 5, 1, 5, 6, 5, 5, 0, 0, 5, 1, 2, 3, 1, 3, 2, 4, 5, 6, 3,
      4, 2, 4, 0, 1, 0, 2, 6, 0, 6, 6, 4, 2>>

\* the state after applying the columns of `moves` in order with do_action,
\* as far as the game continues
RECURSIVE C4_after(_, _)
C4_after(s, moves) ==
    IF moves = <<>> THEN s
    ELSE LET r == C4_do_action(s, Head(moves))
         IN  IF r.outcome.tag # "Actions" THEN r.state
             ELSE C4_after(r.state, Tail(moves))

Starts == {C4_after(C4_initial, m) : m \in {StartA, StartB, StartC, StartD}}

VARIABLES
    root,         \* MCTree.root
    state,        \* MCTree.state, the reference state
    perspective,  \* MCTree.perspective
    panicked,     \* the process has aborted (unwrap on None / assert!)
    state0,       \* history: the state the tree was constructed from
    committed,    \* history: the actions of the successful advances
    iters,        \* history: number of completed iterations
    last,         \* history: the last operation, its argument and result,
                  \* and the number of children the root had before it
    sim           \* a game played by State::playout on its own (Play below);
                  \* idle while the tree is exercised

vars ==
    <<root, state, perspective, panicked, state0, committed, iters, last,
      sim>>

\* no playout is stepped
SimIdle == [pc |-> "idle"]

\* MCTree::new(state, perspective, to_move)
MCTree_new(s, persp, to_move) ==
    {[ok |-> r.ok, root |-> r.node, state |-> s, perspective |-> persp]
     : r \in Node_new(None, other(to_move), s, State_outcome(s), persp)}

Init ==
    \E s \in Starts, persp \in Player, to_move \in Player :
        \E t \in MCTree_new(s, persp, to_move) :
            /\ t.ok
            /\ root = t.root
            /\ state = t.state
            /\ perspective = t.perspective
            /\ panicked = FALSE
            /\ state0 = s
            /\ committed = <<>>
            /\ iters = 0
            /\ last = [op |-> "new", arg |-> None, ret |-> None, nchild |-> 0]
            /\ sim = SimIdle

\* mutant of Iter: select works on the reference state itself, not on a
\* clone, so the root's action stays applied to it
Iter_without_clone ==
    /\ ~panicked
    /\ iters < MaxIters
    /\ \E r \in select(root, state, perspective) :
          /\ root' = IF r.ok THEN r.node ELSE root
          /\ panicked' = ~r.ok
          /\ iters' = IF r.ok THEN iters + 1 ELSE iters
    /\ last' = [op |-> "iter", arg |-> None, ret |-> None,
                nchild |-> Len(root.children)]
    /\ state' = IF root.action = None THEN state
                ELSE C4_do_action(state, root.action[1]).state
    /\ UNCHANGED <<perspective, state0, committed, sim>>

\* MCTree::iter, one round of the loop of MCTree::search_for
Iter ==
    /\ ~panicked
    /\ iters < MaxIters
    /\ \E r \in select(root, state, perspective) :
          /\ root' = IF r.ok THEN r.node ELSE root
          /\ panicked' = ~r.ok
          /\ iters' = IF r.ok THEN iters + 1 ELSE iters
    /\ last' = [op |-> "iter", arg |-> None, ret |-> None,
                nchild |-> Len(root.children)]
    /\ UNCHANGED <<state, perspective, state0, committed, sim>>

\* Iterator::position(|c| c.action == Some(action)): 0 for None
Position(children, action) ==
    IF \E i \in 1 .. Len(children) : children[i].action = Some(action)
    THEN CHOOSE i \in 1 .. Len(children) :
            /\ children[i].action = Some(action)
            /\ \A j \in 1 .. (i - 1) : children[j].action # Some(action)
    ELSE 0

\* mutant of MCTree_do_action: applies `action` itself to the reference state
MCTree_do_action_applies_new(t, action) ==
    LET index == Position(t.root.children, action)
    IN  IF index = 0 THEN [ok |-> FALSE, root |-> t.root, state |-> t.state]
        ELSE [ok |-> TRUE,
              root |-> t.root.children[index],
              state |-> C4_do_action(t.state, action).state]

\* mutant of MCTree_do_action: promotes the first child, not the found one
MCTree_do_action_first_child(t, action) ==
    LET index == Position(t.root.children, action)
    IN  IF index = 0 THEN [ok |-> FALSE, root |-> t.root, state |-> t.state]
        ELSE LET new_root == t.root.children[1]
                 old_root == t.root
             IN  [ok |-> TRUE,
                  root |-> new_root,
                  state |-> IF old_root.action = None THEN t.state
                            ELSE C4_do_action(t.state,
                                              old_root.action[1]).state]

\* MCTree::do_action on the fields [root, state]; ok = FALSE is the panic of
\* unwrap() on the None of position()
MCTree_do_action(t, action) ==
    LET index == Position(t.root.children, action)
    IN  IF index = 0 THEN [ok |-> FALSE, root |-> t.root, state |-> t.state]
        ELSE LET new_root == t.root.children[index]
                 old_root == t.root
             IN  [ok |-> TRUE,
                  root |-> new_root,
                  state |-> IF old_root.action = None THEN t.state
                            ELSE C4_do_action(t.state,
                                              old_root.action[1]).state]

DoAction(action) ==
    /\ ~panicked
    /\ Len(committed) < MaxAdvances
    /\ LET t == MCTree_do_action([root |-> root, state |-> state], action)
       IN  /\ root' = t.root
           /\ state' = t.state
           /\ panicked' = ~t.ok
           /\ committed' = IF t.ok THEN Append(committed, action)
                           ELSE committed
    /\ last' = [op |-> "do_action", arg |-> Some(action), ret |-> None,
                nchild |-> Len(root.children)]
    /\ UNCHANGED <<perspective, state0, iters, sim>>

\* mutant of MCTree_choose_and_do_action: returns the action without
\* committing it
MCTree_choose_and_do_action_no_commit(t, persp) ==
    IF persp = t.root.just_acted
    THEN [ok |-> FALSE, root |-> t.root, state |-> t.state, ret |-> None]
    ELSE LET action == best_action(t.root)
         IN  IF action = None
             THEN [ok |-> FALSE, root |-> t.root, state |-> t.state,
                   ret |-> None]
             ELSE [ok |-> TRUE, root |-> t.root, state |-> t.state,
                   ret |-> action]

\* MCTree::choose_and_do_action on the fields [root, state]; ok = FALSE is
\* the panic of the assert!, of unwrap() on the None of best_action(), or of
\* do_action
MCTree_choose_and_do_action(t, persp) ==
    IF persp = t.root.just_acted
    THEN [ok |-> FALSE, root |-> t.root, state |-> t.state, ret |-> None]
    ELSE LET action == best_action(t.root)
         IN  IF action = None
             THEN [ok |-> FALSE, root |-> t.root, state |-> t.state,
                   ret |-> None]
             ELSE LET u == MCTree_do_action(t, action[1])
                  IN  [ok |-> u.ok, root |-> u.root, state |-> u.state,
                       ret |-> IF u.ok THEN action ELSE None]

ChooseAndDoAction ==
    /\ ~panicked
    /\ Len(committed) < MaxAdvances
    /\ LET t == MCTree_choose_and_do_action(
                    [root |-> root, state |-> state], perspective)
       IN  /\ root' = t.root
           /\ state' = t.state
           /\ panicked' = ~t.ok
           /\ committed' = IF t.ok THEN Append(committed, t.ret[1])
                           ELSE committed
           /\ last' = [op |-> "choose_and_do_action", arg |-> None,
                       ret |-> t.ret, nchild |-> Len(root.children)]
    /\ UNCHANGED <<perspective, state0, iters, sim>>

Next ==
    \/ Iter
    \/ \E action \in Action : DoAction(action)
    \/ ChooseAndDoAction

Spec == Init /\ [][Next]_vars

(***************************************************************************)
(* Ultimate tic-tac-toe (tictac4/src/main.rs).  Arrays are functions on    *)
(* 0 .. 8, a Vec<T4Move> is a sequence.                                    *)
(***************************************************************************)
T4Cell_from_player(p) == IF p = P1 THEN "X" ELSE "O"

T2Board_new == [cells |-> [i \in 0 .. 8 |-> "Blank"], winning_piece |-> "Blank"]

T2Board_full(b) == \A i \in 0 .. 8 : b.cells[i] # "Blank"

T2Board_valid(b, place) == place < 9 /\ b.cells[place] = "Blank"

\* the eight index triples tested by has_won_p / has_won, in source order
Triples ==
    <<<<0, 1, 2>>, <<3, 4, 5>>, <<6, 7, 8>>, <<0, 3, 6>>, <<1, 4, 7>>,
      <<2, 5, 8>>, <<0, 4, 8>>, <<2, 4, 6>>>>

T2Board_has_won_p(b, player) ==
    LET p == T4Cell_from_player(player)
    IN  \E k \in 1 .. Len(Triples) :
            \A j \in 1 .. 3 : b.cells[Triples[k][j]] = p

\* mutant of T2Board_play: the cell is not written
T2Board_play_no_mark(b, place, player) ==
    IF place < 9 /\ b.cells[place] = "Blank"
    THEN [board |-> b, valid |-> TRUE]
    ELSE [board |-> b, valid |-> FALSE]

\* T2Board::play: [board |-> the board afterwards, valid |-> returned]
T2Board_play(b, place, player) ==
    IF place < 9 /\ b.cells[place] = "Blank"
    THEN LET c == [b EXCEPT !.cells[place] = T4Cell_from_player(player)]
         IN  [board |-> IF c.winning_piece = "Blank"
                           /\ T2Board_has_won_p(c, player)
                        THEN [c EXCEPT
                                !.winning_piece = T4Cell_from_player(player)]
                        ELSE c,
              valid |-> TRUE]
    ELSE [board |-> b, valid |-> FALSE]

\* T2Board::blanks: the blank places in increasing order, from place i on
RECURSIVE T2Board_blanks_from(_, _)
T2Board_blanks_from(b, i) ==
    IF i > 8 THEN <<>>
    ELSE (IF b.cells[i] = "Blank" THEN <<i>> ELSE <<>>)
             \o T2Board_blanks_from(b, i + 1)

T2Board_blanks(b) == T2Board_blanks_from(b, 0)

T4Move_new(macro_, micro) == [macro_ |-> macro_, micro |-> micro]

T4Board_new ==
    [boards |-> [i \in 0 .. 8 |-> T2Board_new],
     next_player |-> P1,
     next_board |-> None,
     winner |-> "Blank"]

T4Board_has_won_p(s, player) ==
    LET p == T4Cell_from_player(player)
    IN  \E k \in 1 .. Len(Triples) :
            \A j \in 1 .. 3 : s.boards[Triples[k][j]].winning_piece = p

T4Board_full(s) == \A i \in 0 .. 8 : T2Board_full(s.boards[i])

T4Board_valid(s, place) ==
    /\ IF s.next_board = None THEN place.macro_ < 9
       ELSE s.next_board[1] = place.macro_
    /\ T2Board_valid(s.boards[place.macro_], place.micro)

\* T4Board::play: [state |-> the board afterwards, valid |-> returned]
T4Board_play(s, place) ==
    IF s.next_board = None \/ s.next_board[1] = place.macro_
    THEN LET r == T2Board_play(s.boards[place.macro_], place.micro,
                               s.next_player)
             b == [s EXCEPT !.boards[place.macro_] = r.board]
             w == IF T4Board_has_won_p(b, s.next_player)
                  THEN [b EXCEPT
                          !.winner = T4Cell_from_player(s.next_player)]
                  ELSE b
         IN  IF r.valid
             THEN [state |->
                      [w EXCEPT
                         !.next_player = other(s.next_player),
                         !.next_board =
                             IF ~T2Board_full(w.boards[place.micro])
                             THEN Some(place.micro) ELSE None],
                   valid |-> TRUE]
             ELSE [state |-> s, valid |-> FALSE]
    ELSE [state |-> s, valid |-> FALSE]

T4_initial == T4Board_new

T4_next_player(s) == s.next_player

\* the moves into the blanks of board macro_, then of the boards after it
RECURSIVE T4_all_blanks_from(_, _)
T4_all_blanks_from(s, macro_) ==
    IF macro_ > 8 THEN <<>>
    ELSE LET bl == T2Board_blanks(s.boards[macro_])
         IN  [k \in 1 .. Len(bl) |-> T4Move_new(macro_, bl[k])]
                 \o T4_all_blanks_from(s, macro_ + 1)

\* State::valid_actions of T4Board: the Vec behind the T4BoardIter
T4_valid_actions(s, player) ==
    IF s.next_board # None
    THEN LET bl == T2Board_blanks(s.boards[s.next_board[1]])
         IN  [k \in 1 .. Len(bl) |-> T4Move_new(s.next_board[1], bl[k])]
    ELSE T4_all_blanks_from(s, 0)

T4_has_won(s, player) ==
    LET p == T4Cell_from_player(player)
    IN  \E k \in 1 .. Len(Triples) :
            \A j \in 1 .. 3 : s.boards[Triples[k][j]].winning_piece = p

\* mutant of T4_do_action: the winner is compared with the player to move
T4_do_action_not_other(s, place) ==
    CHOOSE res \in
        {[state |-> t,
          outcome |->
             IF t.winner = T4Cell_from_player(t.next_player)
             THEN Outcome_from_player(t.next_player)
             ELSE IF T4Board_full(t) THEN Draw
             ELSE OutcomeActions(T4_valid_actions(t, t.next_player))]
         : t \in {T4Board_play(s, place).state}} : TRUE

\* State::do_action of T4Board; t is self after self.play(place), computed
\* once
T4_do_action(s, place) ==
    CHOOSE res \in
        {[state |-> t,
          outcome |->
             IF t.winner = T4Cell_from_player(other(t.next_player))
             THEN Outcome_from_player(other(t.next_player))
             ELSE IF T4Board_full(t) THEN Draw
             ELSE OutcomeActions(T4_valid_actions(t, t.next_player))]
         : t \in {T4Board_play(s, place).state}} : TRUE

\* State::outcome (default trait method) for T4Board
T4_outcome(s) ==
    IF T4_has_won(s, P1) THEN P1Win
    ELSE IF T4_has_won(s, P2) THEN P2Win
    ELSE LET actions == T4_valid_actions(s, T4_next_player(s))
         IN  IF Len(actions) = 0 THEN Draw ELSE OutcomeActions(actions)

(***************************************************************************)
(* Play: State::playout stepped one loop iteration at a time, for both     *)
(* games.  Every step applies an action of the latest Continuing outcome,  *)
(* so the positions passed through are the reachable positions of the game.*)
(***************************************************************************)
\* plies explored from initial() of Connect-4, from the Connect-4 middle
\* game position and from initial() of ultimate tic-tac-toe
C4Plies == 4

MidPlies == 3

T4Plies == 2

\* a Connect-4 middle game where lines of four in all directions are near
StartMid == <<4, 2, 6, 4, 2, 3, 2, 5, 4, 4, 5, 0, 3, 6, 6, 6>>

\* ultimate tic-tac-toe games close to their end, as <<macro_, micro>> pairs
T4StartA ==
    <<<<7, 5>>, <<5, 5>>, <<5, 6>>, <<6, 8>>, <<8, 6>>, <<6, 4>>, <<4, 8>>,
      <<8, 4>>, <<4, 7>>, <<7, 1>>, <<1, 0>>, <<0, 1>>, <<1, 5>>, <<5, 7>>,
      <<7, 3>>, <<3, 3>>, <<3, 7>>, <<7, 7>>, <<7, 8>>, <<8, 8>>, <<8, 1>>,
      <<1, 2>>, <<2, 4>>, <<4, 0>>, <<0, 7>>, <<7, 6>>, <<6, 6>>, <<6, 5>>,
      <<5, 2>>, <<2, 5>>, <<5, 8>>, <<8, 5>>, <<5, 0>>, <<0, 4>>, <<4, 2>>,
      <<2, 7>>, <<7, 0>>, <<0, 5>>, <<5, 1>>, <<1, 7>>, <<7, 4>>, <<4, 6>>,
      <<6, 7>>, <<7, 2>>, <<2, 0>>, <<0, 0>>, <<0, 6>>, <<6, 1>>, <<1, 6>>,
      <<6, 0>>, <<0, 2>>, <<2, 1>>, <<1, 8>>, <<8, 2>>, <<2, 2>>, <<2, 8>>,
      <<8, 3>>, <<3, 0>>, <<0, 3>>, <<3, 2>>, <<2, 6>>, <<6, 2>>, <<2, 3>>,
      <<3, 6>>, <<6, 3>>, <<3, 5>>, <<5, 3>>, <<3, 8>>, <<8, 7>>, <<4, 4>>,
      <<4, 5>>, <<5, 4>>, <<4, 1>>, <<1, 4>>, <<4, 3>>>>

T4StartB ==
    <<<<2, 8>>, <<8, 7>>, <<7, 8>>, <<8, 5>>, <<5, 1>>, <<1, 5>>, <<5, 0>>,
      <<0, 3>>, <<3, 1>>, <<1, 0>>, <<0, 0>>, <<0, 4>>, <<4, 3>>, <<3, 2>>,
      <<2, 2>>, <<2, 7>>, <<7, 4>>, <<4, 4>>, <<4, 8>>, <<8, 1>>, <<1, 1>>,
      <<1, 6>>, <<6, 0>>, <<0, 1>>, <<1, 4>>, <<4, 2>>, <<2, 1>>, <<1, 3>>,
      <<3, 7>>, <<7, 0>>, <<0, 2>>, <<2, 0>>, <<0, 5>>, <<5, 2>>, <<2, 3>>,
      <<3, 8>>, <<8, 0>>, <<0, 7>>, <<7, 3>>, <<3, 3>>, <<3, 4>>, <<4, 1>>,
      <<1, 8>>, <<8, 2>>, <<2, 5>>, <<5, 7>>, <<7, 1>>, <<1, 2>>, <<2, 4>>,
      <<4, 0>>, <<0, 6>>, <<6, 6>>, <<6, 5>>, <<5, 3>>, <<3, 5>>, <<5, 6>>,
      <<6, 4>>, <<4, 5>>, <<5, 5>>, <<5, 8>>, <<8, 3>>, <<3, 6>>, <<6, 7>>,
      <<7, 5>>, <<5, 4>>, <<4, 6>>, <<6, 1>>, <<1, 7>>, <<7, 2>>, <<2, 6>>>>

\* the same games played to their end: a draw and a win of P2
T4EndA ==
    T4StartA \o <<<<3, 1>>, <<1, 1>>, <<1, 3>>, <<3, 4>>, <<8, 0>>, <<0, 8>>>>

T4EndB ==
    T4StartB \o <<<<6, 3>>, <<3, 0>>, <<0, 8>>, <<8, 6>>, <<6, 8>>, <<8, 4>>>>

\* the state and the outcome in hand after playing `moves` with do_action,
\* as far as the game continues
RECURSIVE C4_played(_, _, _)
C4_played(s, outcome, moves) ==
    IF moves = <<>> \/ outcome.tag # "Actions"
    THEN [state |-> s, outcome |-> outcome]
    ELSE LET r == C4_do_action(s, Head(moves))
         IN  C4_played(r.state, r.outcome, Tail(moves))

RECURSIVE T4_played(_, _, _)
T4_played(s, outcome, moves) ==
    IF moves = <<>> \/ outcome.tag # "Actions"
    THEN [state |-> s, outcome |-> outcome]
    ELSE LET r == T4_do_action(s,
                               T4Move_new(Head(moves)[1], Head(moves)[2]))
         IN  T4_played(r.state, r.outcome, Tail(moves))

\* a playout about to enter its loop; budget is None or Some(plies explored)
SimStart(game, from, player, budget, origin) ==
    [game |-> game,
     state |-> from.state,
     outcome |-> from.outcome,
     player |-> player,
     draws |-> 0,
     steps |-> 0,
     budget |-> budget,
     origin |-> origin,
     start |-> from,
     prev |-> from,
     action |-> None,
     pc |-> "loop",
     ret |-> None]

\* the tree is not exercised while a playout is stepped
TreeIdle ==
    /\ root = [action |-> None, visits |-> 1, value |-> Half,
               untried_actions |-> Actions_default, children |-> <<>>,
               just_acted |-> P2]
    /\ state = C4_initial
    /\ perspective = P1
    /\ panicked = FALSE
    /\ state0 = C4_initial
    /\ committed = <<>>
    /\ iters = 0
    /\ last = [op |-> "new", arg |-> None, ret |-> None, nchild |-> 0]

PlayInit ==
    /\ TreeIdle
    /\ \E player \in Player :
          \/ sim = SimStart("c4",
                            C4_played(C4_initial, State_outcome(C4_initial),
                                      <<>>),
                            player, Some(C4Plies), "game")
          \/ sim = SimStart("c4",
                            C4_played(C4_initial, State_outcome(C4_initial),
                                      StartMid),
                            player, Some(MidPlies), "game")
          \/ \E m \in {StartA, StartB, StartC, StartD} :
                sim = SimStart("c4",
                               C4_played(C4_initial,
                                         State_outcome(C4_initial), m),
                               player, None, "game")
          \/ sim = SimStart("t4",
                            T4_played(T4_initial, T4_outcome(T4_initial),
                                      <<>>),
                            player, Some(T4Plies), "game")
          \/ \E m \in {T4StartA, T4StartB, T4EndA, T4EndB} :
                sim = SimStart("t4",
                               T4_played(T4_initial, T4_outcome(T4_initial),
                                         m),
                               player, None, "game")
          \* a Continuing outcome without actions, which neither game returns
          \/ sim = SimStart("c4",
                            [state |-> C4_after(C4_initial, StartA),
                             outcome |-> OutcomeActions(Actions_default)],
                            player, None, "foreign")
          \/ sim = SimStart("t4",
                            [state |-> T4_initial,
                             outcome |-> OutcomeActions(<<>>)],
                            player, None, "foreign")

\* ExactSizeIterator::len and Iterator::nth for the Actions of either game
Sim_len(game, actions) ==
    IF game = "c4" THEN Actions_len(actions) ELSE Len(actions)

Sim_nth(game, actions, k) ==
    IF game = "c4" THEN Actions_nth(actions, k)
    ELSE IF k < Len(actions) THEN Some(actions[k + 1]) ELSE None

Sim_do_action(game, s, action) ==
    IF game = "c4" THEN C4_do_action(s, action) ELSE T4_do_action(s, action)

\* one pass of the loop of State::playout with random index k
PlayStep(k) ==
    /\ sim.pc = "loop"
    /\ sim.outcome.tag = "Actions"
    /\ IF sim.budget = None THEN TRUE ELSE sim.steps < sim.budget[1]
    /\ k < Sim_len(sim.game, sim.outcome.actions)
    /\ \E action \in {Sim_nth(sim.game, sim.outcome.actions, k)[1]} :
          \E r \in {Sim_do_action(sim.game, sim.state, action)} :
              sim' = [sim EXCEPT
                        !.state = r.state,
                        !.outcome = r.outcome,
                        !.draws = @ + 1,
                        !.steps = @ + 1,
                        !.prev = [state |-> sim.state,
                                  outcome |-> sim.outcome],
                        !.action = Some(action)]
    /\ UNCHANGED <<root, state, perspective, panicked, state0, committed,
                   iters, last>>

\* the loop of State::playout finds a decisive outcome and returns its value
PlayReturn ==
    /\ sim.pc = "loop"
    /\ sim.outcome.tag # "Actions"
    /\ sim' = [sim EXCEPT
                 !.pc = "returned",
                 !.ret = Some(Outcome_value(sim.outcome, sim.player))]
    /\ UNCHANGED <<root, state, perspective, panicked, state0, committed,
                   iters, last>>

\* Range::new(0, 0) panics (low >= high) on a Continuing outcome of length 0
PlayPanic ==
    /\ sim.pc = "loop"
    /\ sim.outcome.tag = "Actions"
    /\ Sim_len(sim.game, sim.outcome.actions) = 0
    /\ sim' = [sim EXCEPT !.pc = "panicked"]
    /\ UNCHANGED <<root, state, perspective, panicked, state0, committed,
                   iters, last>>

\* Range::new(0, actions.len()): the indices the random source can draw
Indices ==
    IF sim.outcome.tag = "Actions"
    THEN 0 .. (Sim_len(sim.game, sim.outcome.actions) - 1)
    ELSE {}

PlayNext ==
    \/ \E k \in Indices : PlayStep(k)
    \/ PlayReturn
    \/ PlayPanic

PlaySpec == PlayInit /\ [][PlayNext]_vars

\* the playout is a loop of one thread: it keeps running while it can
PlayFairSpec == PlaySpec /\ WF_vars(PlayNext)

(***************************************************************************)
(* Properties                                                              *)
(***************************************************************************)
\* all nodes of the subtree of n
RECURSIVE Nodes(_)
Nodes(n) ==
    {n} \cup UNION {Nodes(n.children[i]) : i \in 1 .. Len(n.children)}

\* s with the columns of `moves` applied in order
RECURSIVE Applied(_, _)
Applied(s, moves) ==
    IF moves = <<>> THEN s
    ELSE Applied(C4_do_action(s, Head(moves)).state, Tail(moves))

Front(q) == SubSeq(q, 1, Len(q) - 1)

ChildActions(n) == {n.children[i].action : i \in 1 .. Len(n.children)}

\* C1 as stated: after the successful advances a1..an the reference state is
\* the construct-time state with a1..an applied in order.
C1_StateHasAllCommitted == state = Applied(state0, committed)

\* C1 amended: after the successful advances a1..an the reference state is
\* the construct-time state with a1..a(n-1) applied in order, and the root
\* carries the last committed action an, not yet applied to the state (a
\* freshly constructed root carries none).
C1_StateLagsRootByOne ==
    /\ state = Applied(state0, Front(committed))
    /\ root.action = IF committed = <<>> THEN None
                     ELSE Some(committed[Len(committed)])

C1_Witness ==
    /\ Len(committed) = 2
    /\ ~panicked
    /\ state # state0

\* C2: advance(a) with an action a carried by no child of the root returns
\* to its caller without aborting and leaves root and reference state as
\* they were.
C2_AbsentActionRecoverable ==
    [][(/\ last'.op = "do_action"
        /\ Position(root.children, last'.arg[1]) = 0)
       => (/\ ~panicked'
           /\ root' = root
           /\ state' = state)]_vars

\* C3: a successful advance(a) makes the new root identical to the child of
\* the old root that carried a as it was just before the call; nothing of
\* the old root or its other children remains.
C3_RerootPreservesChild ==
    [][(last'.op = "do_action" /\ ~panicked')
       => (/\ Position(root.children, last'.arg[1]) > 0
           /\ root' = root.children[Position(root.children, last'.arg[1])]
          )]_vars

\* the promoted child had a subtree of its own and was not the first child:
\* `state` is now the old root's position, whose first child carried the
\* lowest legal column
C3_Witness ==
    /\ last.op = "do_action"
    /\ ~panicked
    /\ last.nchild >= 2
    /\ root.action # None
    /\ root.visits >= 2
    /\ Len(root.children) >= 1
    /\ \E c \in 0 .. 6 : c < root.action[1] /\ c \in Outcome_as_actions(
                                                  State_outcome(state))

\* C4: every node of the tree has 0 <= value <= 1 and visits >= 1.
C4_ValueAndVisitsInRange ==
    \A n \in Nodes(root) :
        /\ RatLeq(Zero, n.value)
        /\ RatLeq(n.value, One)
        /\ n.value.d > 0
        /\ n.visits >= 1

C4_Witness ==
    \E n \in Nodes(root) :
        /\ n.visits >= 3
        /\ n.value # Zero /\ n.value # One /\ n.value # Half
        /\ \E i \in 1 .. Len(n.children) : Len(n.children[i].children) > 0

\* C5: on a tree on which no advance has been performed, after K completed
\* iterations root.visits = K + 1.
C5_RootVisitsCountIterations ==
    committed = <<>> => root.visits = iters + 1

\* some iteration descended into a child whose game is finished
C5_Witness ==
    /\ committed = <<>>
    /\ iters >= 4
    /\ \E i \in 1 .. Len(root.children) :
          /\ root.children[i].untried_actions = {}
          /\ Len(root.children[i].children) = 0
          /\ root.children[i].visits >= 2
    /\ \E i \in 1 .. Len(root.children) :
          Len(root.children[i].children) > 0

\* C6: for every node the untried actions and the children's actions are
\* disjoint, no two children carry the same action, and together they are
\* the node's legal action set at creation (the action set of the outcome
\* the node was created from).
RECURSIVE NodeActionsPartition(_, _, _)
NodeActionsPartition(n, s, outcome0) ==
    LET r == IF n.action = None THEN [state |-> s, outcome |-> outcome0]
             ELSE C4_do_action(s, n.action[1])
        legal == Outcome_as_actions(r.outcome)
        acts == {n.children[i].action[1] : i \in 1 .. Len(n.children)}
    IN  /\ n.untried_actions \cap acts = {}
        /\ \A i, j \in 1 .. Len(n.children) :
              n.children[i].action = n.children[j].action => i = j
        /\ \A i \in 1 .. Len(n.children) : n.children[i].action # None
        /\ n.untried_actions \cup acts = legal
        /\ \A i \in 1 .. Len(n.children) :
              NodeActionsPartition(n.children[i], r.state, outcome0)

C6_UntriedAndChildrenPartitionLegal ==
    NodeActionsPartition(root, state, State_outcome(state0))

\* a node below the root that is partly expanded
C6_Witness ==
    \E n \in Nodes(root) \ {root} :
        /\ n.untried_actions # {}
        /\ Len(n.children) >= 1

\* indices of the children of n whose value is the highest
MaxValueChildren(n) ==
    {i \in 1 .. Len(n.children) :
        \A j \in 1 .. Len(n.children) :
            RatLeq(n.children[j].value, n.children[i].value)}

\* C7 as stated: best_action returns the action of the first child, in
\* child order, among those of highest value.
C7_BestActionFirstMaximum ==
    Len(root.children) > 0 =>
        LET i == CHOOSE k \in MaxValueChildren(root) :
                    \A j \in MaxValueChildren(root) : k <= j
        IN  best_action(root) = root.children[i].action

\* C7 amended: best_action returns the action of a root child of highest
\* value, and of the last such child in child order when several share it.
C7_BestActionLastMaximum ==
    Len(root.children) > 0 =>
        LET i == CHOOSE k \in MaxValueChildren(root) :
                    \A j \in MaxValueChildren(root) : j <= k
        IN  best_action(root) = root.children[i].action

C7_Witness ==
    /\ Len(root.children) >= 3
    /\ Cardinality(MaxValueChildren(root)) = 2
    /\ 1 \in MaxValueChildren(root)

\* C8: when the root has children, best_action returns an action carried by
\* one of them, never none and never one that is only untried.
C8_BestActionAmongChildren ==
    Len(root.children) >= 1 =>
        /\ best_action(root) # None
        /\ best_action(root) \in ChildActions(root)
        /\ best_action(root)[1] \notin root.untried_actions

C8_Witness ==
    /\ Len(root.children) >= 1
    /\ root.untried_actions # {}
    /\ root.action # None

\* C9: with a root without children best_action returns none and
\* recommend_and_commit returns an error to its caller without aborting,
\* leaving root and reference state as they were.
C9_NoChildrenRecoverable ==
    [][(last'.op = "choose_and_do_action" /\ Len(root.children) = 0)
       => (/\ best_action(root) = None
           /\ ~panicked'
           /\ root' = root
           /\ state' = state)]_vars

RECURSIVE MinDepthOfLines(_)
MinDepthOfLines(n) ==
    LET ds == {MinDepthOfLines(n.children[i]) + 1 : i \in 1 .. Len(n.children)}
    IN  IF ds = {} THEN 0 ELSE CHOOSE d \in ds : \A e \in ds : d <= e

RECURSIVE MaxDepthOfLines(_)
MaxDepthOfLines(n) ==
    LET ds == {MaxDepthOfLines(n.children[i]) + 1 : i \in 1 .. Len(n.children)}
    IN  IF ds = {} THEN 0 ELSE CHOOSE d \in ds : \A e \in ds : e <= d

\* C14: min_depth(root) is 0 without children and otherwise 1 + the minimum
\* of the children's min_depth; max_depth(root) is 0 without children and
\* otherwise 1 + the maximum of the children's max_depth, the length of the
\* longest line beneath the root.
C14_DepthStatisticsRecursive ==
    /\ min_depth(root) = MinDepthOfLines(root)
    /\ max_depth(root) = MaxDepthOfLines(root)

\* number of nodes of the subtree of n
RECURSIVE NodeCount(_)
RECURSIVE NodeCountFrom(_, _)
NodeCountFrom(n, i) ==
    IF i > Len(n.children) THEN 0
    ELSE NodeCount(n.children[i]) + NodeCountFrom(n, i + 1)

NodeCount(n) == 1 + NodeCountFrom(n, 1)

\* a node whose game is finished: nothing untried and no children
IsTerminal(n) == n.untried_actions = {} /\ Len(n.children) = 0

\* number of visits paid to terminal nodes of the subtree of n after their
\* creation
RECURSIVE TerminalRevisits(_)
RECURSIVE TerminalRevisitsFrom(_, _)
TerminalRevisitsFrom(n, i) ==
    IF i > Len(n.children) THEN 0
    ELSE TerminalRevisits(n.children[i]) + TerminalRevisitsFrom(n, i + 1)

TerminalRevisits(n) ==
    IF IsTerminal(n) THEN n.visits - 1 ELSE TerminalRevisitsFrom(n, 1)

\* the child indices an iteration follows from n down to the node where it
\* expands or stops
RECURSIVE DescentPath(_, _)
DescentPath(n, player) ==
    IF n.untried_actions # {} \/ Len(n.children) = 0 THEN <<>>
    ELSE LET i == choose_child(n, player # n.just_acted)
         IN  <<i>> \o DescentPath(n.children[i], player)

\* the node of the subtree of n at the end of a path of child indices
RECURSIVE NodeAt(_, _)
NodeAt(n, path) ==
    IF path = <<>> THEN n ELSE NodeAt(n.children[Head(path)], Tail(path))

\* v2 = (v * visits + res) / (visits + 1), by cross-multiplication
IsMeanOf(v2, v, visits, res) ==
    v2.n * v.d * res.d * (visits + 1)
        = v2.d * (v.n * visits * res.d + res.n * v.d)

\* C17 as stated: after K iterations on a fresh tree the tree holds K + 1
\* nodes.
C17_OneNodePerIteration ==
    committed = <<>> => NodeCount(root) = iters + 1

\* C17 amended: every iteration adds exactly one node, except an iteration
\* that ends at a node without untried actions and without children, which
\* adds none; after K iterations on a fresh tree the number of nodes plus
\* the number of such iterations is K + 1.
C17_OneNodePerNonTerminalIteration ==
    committed = <<>> =>
        NodeCount(root) + TerminalRevisits(root) = iters + 1

C17_Witness ==
    /\ committed = <<>>
    /\ iters >= 5
    /\ TerminalRevisits(root) >= 2
    /\ NodeCount(root) >= 4

\* C18: an iteration that reaches a node without untried actions and
\* without children only adds one to that node's visits, keeps its value,
\* creates no node, has a single possible result (no random draw) and hands
\* the node's unchanged value up: every ancestor averages that value in.
C18_TerminalVisitOnlyCounts ==
    [][(/\ last'.op = "iter"
        /\ ~panicked'
        /\ IsTerminal(NodeAt(root, DescentPath(root, perspective))))
       => LET path == DescentPath(root, perspective)
              end == NodeAt(root, path)
          IN  /\ NodeAt(root', path) = [end EXCEPT !.visits = @ + 1]
              /\ NodeCount(root') = NodeCount(root)
              /\ Cardinality(select(root, state, perspective)) = 1
              /\ \A k \in 0 .. (Len(path) - 1) :
                    LET a == NodeAt(root, SubSeq(path, 1, k))
                        b == NodeAt(root', SubSeq(path, 1, k))
                    IN  /\ IsMeanOf(b.value, a.value, a.visits, end.value)
                        /\ b.visits = a.visits + 1
      ]_vars

\* the terminal node lies two levels below the root
C18_Witness ==
    /\ last.op = "iter"
    /\ ~panicked
    /\ \E i \in 1 .. Len(root.children) :
          \E j \in 1 .. Len(root.children[i].children) :
              /\ IsTerminal(root.children[i].children[j])
              /\ root.children[i].children[j].visits >= 2

\* n2 is n after an iteration that followed `path` below n with result res:
\* on the path visits grow by one and values average res in; the end of the
\* path gets one new child seeded with res, or is terminal and keeps its
\* value; everything else is as before.
RECURSIVE PathUpdated(_, _, _, _)
PathUpdated(n, n2, path, res) ==
    /\ n2.visits = n.visits + 1
    /\ IsMeanOf(n2.value, n.value, n.visits, res)
    /\ n2.action = n.action
    /\ n2.just_acted = n.just_acted
    /\ IF path # <<>>
       THEN /\ n2.untried_actions = n.untried_actions
            /\ Len(n2.children) = Len(n.children)
            /\ \A j \in 1 .. Len(n.children) :
                  j # Head(path) => n2.children[j] = n.children[j]
            /\ PathUpdated(n.children[Head(path)], n2.children[Head(path)],
                           Tail(path), res)
       ELSE IF IsTerminal(n)
       THEN /\ n2.untried_actions = n.untried_actions
            /\ n2.children = n.children
            /\ n2.value = n.value
       ELSE /\ Len(n2.children) = Len(n.children) + 1
            /\ SubSeq(n2.children, 1, Len(n.children)) = n.children
            /\ LET c == n2.children[Len(n2.children)]
               IN  /\ c.visits = 1
                   /\ c.value = res
                   /\ c.children = <<>>
                   /\ c.action # None
                   /\ c.action[1] \in n.untried_actions
                   /\ n2.untried_actions = n.untried_actions \ {c.action[1]}

\* C19: one iteration adds exactly 1 to the visits of each node of the
\* single path it descends, averages the same result into the value of each
\* of them, and leaves every node off that path unchanged.
C19_IterationUpdatesOnePath ==
    [][(last'.op = "iter" /\ ~panicked')
       => \E res \in {Zero, Half, One} :
             PathUpdated(root, root', DescentPath(root, perspective), res)
      ]_vars

\* the path had three nodes and there were nodes off it
C19_Witness ==
    /\ last.op = "iter"
    /\ ~panicked
    /\ Len(root.children) >= 2
    /\ \E i \in 1 .. Len(root.children) :
          \E j \in 1 .. Len(root.children[i].children) :
              /\ Len(root.children[i].children) >= 2
              /\ Len(root.children[i].children[j].children) >= 1

\* value * visits of a node, and its sum over the children from index i
Total(n) == Rat(n.value.n * n.visits, n.value.d)

RECURSIVE ChildrenTotalFrom(_, _)
ChildrenTotalFrom(n, i) ==
    IF i > Len(n.children) THEN Zero
    ELSE RatAdd(Total(n.children[i]), ChildrenTotalFrom(n, i + 1))

\* C20: for every node, value * visits = seed + the sum of value * visits
\* over its children, where seed is the result of the node's seeding
\* simulation, one of 0, 1/2 and 1, and a node without children has
\* value = seed however often it was visited; the children's totals are in
\* turn the sums of the results backpropagated through the node.
RECURSIVE ValueIsMeanOfResults(_)
ValueIsMeanOfResults(n) ==
    /\ IF Len(n.children) = 0 THEN n.value \in {Zero, Half, One}
       ELSE RatSub(Total(n), ChildrenTotalFrom(n, 1)) \in {Zero, Half, One}
    /\ \A i \in 1 .. Len(n.children) : ValueIsMeanOfResults(n.children[i])

C20_ValueIsMeanOfResults == ValueIsMeanOfResults(root)

C20_Witness ==
    \E n \in Nodes(root) :
        /\ n.visits >= 4
        /\ n.value.d >= 3
        /\ \E i \in 1 .. Len(n.children) :
              /\ IsTerminal(n.children[i])
              /\ n.children[i].visits >= 2

\* number of blank cells of a position of either game
RECURSIVE T4_blank_count(_, _)
T4_blank_count(s, i) ==
    IF i > 8 THEN 0
    ELSE Len(T2Board_blanks(s.boards[i])) + T4_blank_count(s, i + 1)

Blanks(game, s) ==
    IF game = "c4" THEN 42 - Cardinality(s.xs \cup s.os)
    ELSE T4_blank_count(s, 0)

\* C11: a playout started with a decisive outcome returns without applying
\* an action and without a random draw: 1 if the perspective player won, 0
\* if the other player won, 1/2 for a draw.
C11_DecisiveStartReturnsAtOnce ==
    (sim.pc # "idle" /\ sim.start.outcome.tag # "Actions") =>
        /\ sim.draws = 0
        /\ sim.steps = 0
        /\ sim.state = sim.start.state
        /\ sim.pc \in {"loop", "returned"}
        /\ sim.pc = "returned" =>
              sim.ret =
                 Some(IF sim.start.outcome.tag = "Draw" THEN Half
                      ELSE IF sim.start.outcome.tag = "P1Win"
                      THEN (IF sim.player = P1 THEN One ELSE Zero)
                      ELSE (IF sim.player = P2 THEN One ELSE Zero))

\* the playout of a lost game has returned
C11_Witness ==
    /\ sim.pc = "returned"
    /\ sim.steps = 0
    /\ sim.start.outcome.tag \in {"P1Win", "P2Win"}
    /\ sim.ret = Some(Zero)

\* C12 as stated: a Continuing outcome with zero actions is treated as a
\* Draw: the playout returns 1/2 and creating a node from it succeeds with
\* value 1/2 and no untried actions; nothing aborts.
C12_EmptyActionsTreatedAsDraw ==
    (sim.pc # "idle" /\ sim.start.outcome.tag = "Actions"
        /\ Sim_len(sim.game, sim.start.outcome.actions) = 0) =>
        /\ sim.pc = "loop" \/ (sim.pc = "returned" /\ sim.ret = Some(Half))
        /\ sim.game = "c4" =>
              \A r \in Node_new(None, P1, sim.start.state, sim.start.outcome,
                                sim.player) :
                  /\ r.ok
                  /\ r.node.value = Half
                  /\ r.node.untried_actions = {}

\* every action of a game fills one blank cell, and a Continuing outcome
\* always offers an action
PlayoutProgress ==
    (sim.pc # "idle" /\ sim.origin = "game") =>
        /\ sim.steps + Blanks(sim.game, sim.state)
              = Blanks(sim.game, sim.start.state)
        /\ sim.outcome.tag = "Actions" =>
              /\ Sim_len(sim.game, sim.outcome.actions) > 0
              /\ Blanks(sim.game, sim.state) > 0
        /\ sim.pc # "panicked"

\* C13: for both games a playout from a reachable position ends in a
\* decisive outcome after at most one action per empty cell, whatever the
\* random choices: each action fills a blank cell and a Continuing outcome
\* is never empty, and a playout that is left running does return.
C13_PlayoutTerminates ==
    /\ []PlayoutProgress
    /\ (sim.origin = "game" /\ sim.budget = None) =>
          <>(/\ sim.pc = "returned"
             /\ sim.outcome.tag \in {"P1Win", "P2Win", "Draw"}
             /\ sim.steps <= Blanks(sim.game, sim.start.state))

\* a playout of ultimate tic-tac-toe returned after five actions or more
C13_Witness ==
    /\ sim.pc = "returned"
    /\ sim.game = "t4"
    /\ sim.origin = "game"
    /\ sim.budget = None
    /\ sim.steps >= 5

\* four pieces of player p in consecutive cells from some cell in direction
\* (dr, dc) of the 6 x 7 board; cell (r, c) is bit r * 7 + c
LineOfFourIn(s, p, dr, dc) ==
    LET pieces == IF p = P1 THEN s.xs ELSE s.os
    IN  \E r \in 0 .. (rows - 1), c \in 0 .. (cols - 1) :
            \A i \in 0 .. (streak - 1) :
                /\ r + i * dr \in 0 .. (rows - 1)
                /\ c + i * dc \in 0 .. (cols - 1)
                /\ ((r + i * dr) * 7 + c + i * dc) \in pieces

\* along a row, a column or either diagonal
LineOfFour(s, p) ==
    \/ LineOfFourIn(s, p, 0, 1)
    \/ LineOfFourIn(s, p, 1, 0)
    \/ LineOfFourIn(s, p, 1, 1)
    \/ LineOfFourIn(s, p, 1, -1)

\* C15: in Connect-4, when a legal do_action leaves four of the mover's
\* pieces consecutive in a row, a column or a diagonal, has_won(mover) holds
\* right after it and do_action returned the mover's Win; has_won(p) holds
\* only if such a line of p exists.
C15_HasWonIffLineOfFour ==
    (sim.pc # "idle" /\ sim.game = "c4" /\ sim.origin = "game") =>
        /\ \A p \in Player :
              C4_has_won(sim.state, p) => LineOfFour(sim.state, p)
        /\ sim.action # None =>
              LET mover == C4_next_player(sim.prev.state)
              IN  LineOfFour(sim.state, mover) =>
                      /\ C4_has_won(sim.state, mover)
                      /\ sim.outcome.tag = Outcome_from_player(mover).tag

\* the last action completed a diagonal line and no other line
C15_Witness ==
    /\ sim.pc # "idle"
    /\ sim.game = "c4"
    /\ sim.origin = "game"
    /\ sim.action # None
    /\ LET mover == C4_next_player(sim.prev.state)
       IN  /\ LineOfFourIn(sim.state, mover, 1, -1)
           /\ ~LineOfFourIn(sim.state, mover, 0, 1)
           /\ ~LineOfFourIn(sim.state, mover, 1, 0)
           /\ ~LineOfFourIn(sim.state, mover, 1, 1)
           /\ ~LineOfFour(sim.prev.state, mover)

\* has_won, valid_actions and next_player of the game played
Sim_has_won(game, s, p) ==
    IF game = "c4" THEN C4_has_won(s, p) ELSE T4_has_won(s, p)

Sim_next_player(game, s) ==
    IF game = "c4" THEN C4_next_player(s) ELSE T4_next_player(s)

Sim_valid_actions(game, s, p) ==
    IF game = "c4" THEN C4_valid_actions(s, p) ELSE T4_valid_actions(s, p)

\* C16: for both games the Outcome returned by a legal do_action on a
\* position that is not finished agrees with the resulting state: Win(p)
\* exactly when has_won(p), Draw exactly when nobody has won and no legal
\* action remains, otherwise Continuing with a non-empty action set equal,
\* elements and order, to valid_actions(state, next_player(state)).
C16_OutcomeAgreesWithState ==
    (sim.pc # "idle" /\ sim.origin = "game" /\ sim.action # None) =>
        LET s == sim.state
            o == sim.outcome
            va == Sim_valid_actions(sim.game, s,
                                    Sim_next_player(sim.game, s))
        IN  /\ \A p \in Player :
                  (o.tag = Outcome_from_player(p).tag)
                      <=> Sim_has_won(sim.game, s, p)
            /\ (o.tag = "Draw")
                  <=> /\ \A p \in Player : ~Sim_has_won(sim.game, s, p)
                      /\ Sim_len(sim.game, va) = 0
            /\ o.tag = "Actions" =>
                  /\ Sim_len(sim.game, o.actions) > 0
                  /\ o.actions = va

\* an action of ultimate tic-tac-toe filled the board without a winner
C16_Witness ==
    /\ sim.pc # "idle"
    /\ sim.origin = "game"
    /\ sim.game = "t4"
    /\ sim.action # None
    /\ sim.outcome.tag = "Draw"
    /\ sim.prev.outcome.tag = "Actions"

\* a node where an iteration selects among the children
IsSelecting(n) == n.untried_actions = {} /\ Len(n.children) > 0

\* the value term of the score of child c of a node n
ValueTerm(n, c, player) ==
    IF player # n.just_acted THEN c.value ELSE RatSub(One, c.value)

\* n2 is n after an iteration: at every selecting node of its path the
\* iteration went into a child i that no child j with at most as many
\* visits (hence at least as large an exploration term) beats on the value
\* term; for children of equal visits: the greatest value when
\* player # n.just_acted, the smallest when player = n.just_acted.
RECURSIVE DescendsByScore(_, _, _)
DescendsByScore(n, n2, player) ==
    IsSelecting(n) =>
        \E i \in 1 .. Len(n.children) :
            /\ n2.children[i] # n.children[i]
            /\ \A j \in 1 .. Len(n.children) :
                  n.children[j].visits <= n.children[i].visits =>
                      RatLeq(ValueTerm(n, n.children[j], player),
                             ValueTerm(n, n.children[i], player))
            /\ DescendsByScore(n.children[i], n2.children[i], player)

\* C21: selection scores child c as (c.value if perspective #
\* node.just_acted, else 1 - c.value) + sqrt(ln(2 * node.visits) / c.visits)
\* and descends into a child of highest score: among children of equal
\* visits one of greatest value when perspective # node.just_acted and one
\* of smallest value when perspective = node.just_acted.
C21_SelectionMaximizesOrMinimizes ==
    [][(last'.op = "iter" /\ ~panicked')
       => DescendsByScore(root, root', perspective)]_vars

\* the root selected as the minimizing side among children of equal visits
\* and different values
C21_Witness ==
    /\ last.op = "iter"
    /\ ~panicked
    /\ perspective = root.just_acted
    /\ IsSelecting(root)
    /\ root.visits > Len(root.children) + 1
    /\ \E i, j \in 1 .. Len(root.children) :
          /\ root.children[i].visits = root.children[j].visits + 1
          /\ ~RatLeq(root.children[j].value, root.children[i].value)

\* indices of the children of n whose score is the highest
MaxWeightChildren(n, player) ==
    {i \in 1 .. Len(n.children) :
        \A j \in 1 .. Len(n.children) :
            RatLeq(weight(n.children[j], n.visits, player # n.just_acted),
                   weight(n.children[i], n.visits, player # n.just_acted))}

\* the child an iteration went into at n: the one that differs in n2
ChangedChild(n, n2) ==
    CHOOSE i \in 1 .. Len(n.children) : n2.children[i] # n.children[i]

\* C22 as stated: among several children of highest score selection
\* descends into the first in child order.
C22_SelectionFirstMaximum ==
    [][(last'.op = "iter" /\ ~panicked' /\ IsSelecting(root))
       => \A j \in MaxWeightChildren(root, perspective) :
              ChangedChild(root, root') <= j]_vars

\* C22 amended: selection descends into a child of highest score, and into
\* the last such child in child (creation) order when several share it.
C22_SelectionLastMaximum ==
    [][(last'.op = "iter" /\ ~panicked' /\ IsSelecting(root))
       => /\ ChangedChild(root, root') \in MaxWeightChildren(root, perspective)
          /\ \A j \in MaxWeightChildren(root, perspective) :
                j <= ChangedChild(root, root')]_vars

\* the root has just selected its last child, which has one visit more than
\* an earlier child of the same value: before the step their scores were
\* equal
C22_Witness ==
    /\ last.op = "iter"
    /\ ~panicked
    /\ IsSelecting(root)
    /\ root.visits > Len(root.children) + 1
    /\ \E j \in 1 .. (Len(root.children) - 1) :
          LET c == root.children[Len(root.children)]
          IN  /\ root.children[j].visits + 1 = c.visits
              /\ root.children[j].value = c.value
              /\ c.children = <<>>

\* the children of n, in creation order, carry the smallest actions of the
\* legal action set n was created with, in ascending order; s is the
\* position n's action is applied to
RECURSIVE ChildrenArePrefix(_, _, _)
ChildrenArePrefix(n, s, outcome0) ==
    LET r == IF n.action = None THEN [state |-> s, outcome |-> outcome0]
             ELSE C4_do_action(s, n.action[1])
        legal == Outcome_as_actions(r.outcome)
    IN  /\ \A i \in 1 .. Len(n.children) :
              /\ n.children[i].action # None
              /\ n.children[i].action[1] \in legal
              /\ Cardinality({b \in legal : b < n.children[i].action[1]})
                    = i - 1
        /\ \A i \in 1 .. Len(n.children) :
              ChildrenArePrefix(n.children[i], r.state, outcome0)

\* C23: expansion takes the untried actions in the game's enumeration
\* order whatever the random draws are: the k-th child of a node carries
\* the k-th action (ascending column) of the legal action set the node was
\* created with, so the children are a prefix of that sequence.
C23_ChildrenInEnumerationOrder ==
    ChildrenArePrefix(root, state, State_outcome(state0))

\* a partly expanded node with two children or more, after an advance
C23_Witness ==
    /\ committed # <<>>
    /\ \E n \in Nodes(root) :
          /\ Len(n.children) >= 2
          /\ n.untried_actions # {}

\* C24: an iteration leaves the reference state and the perspective of the
\* tree as they were; only the nodes change.
C24_IterationKeepsReferenceState ==
    [][last'.op = "iter" => (state' = state /\ perspective' = perspective)
      ]_vars

\* an iteration on a root that carries an action, which select applies to
\* the state it is given
C24_Witness ==
    /\ last.op = "iter"
    /\ ~panicked
    /\ root.action # None
    /\ Len(root.children) >= 1

\* the position of the root: its action applied to the reference state
RootPosition ==
    IF root.action = None THEN state
    ELSE C4_do_action(state, root.action[1]).state

\* node n was created at position pos (its action included): its untried
\* and its children's actions are the legal actions of pos, a finished pos
\* gave it its value, and each child was created at pos followed by the
\* child's action
RECURSIVE CreatedAt(_, _, _)
CreatedAt(n, pos, player) ==
    LET o == State_outcome(pos)
    IN  /\ n.untried_actions \cup
              {n.children[i].action[1] : i \in 1 .. Len(n.children)}
              = Outcome_as_actions(o)
        /\ o.tag # "Actions" => n.value = Outcome_value(o, player)
        /\ \A i \in 1 .. Len(n.children) :
              CreatedAt(n.children[i],
                        C4_do_action(pos, n.children[i].action[1]).state,
                        player)

\* C25: between operations the reference state with the root's action
\* applied (when it has one) is the construct-time state followed by all
\* committed actions; every node was expanded and simulated at the position
\* given by the committed actions followed by the actions on the path from
\* the root to it, each applied once.
C25_RootPositionIsRealPosition ==
    LET real == Applied(state0, committed)
    IN  /\ RootPosition = real
        /\ CreatedAt(root, real, perspective)

\* two advances, then iterations that built two levels below the new root
C25_Witness ==
    /\ Len(committed) = 2
    /\ ~panicked
    /\ last.op = "iter"
    /\ \E i \in 1 .. Len(root.children) : Len(root.children[i].children) >= 1

\* C26: every node with at least one child has visits = 1 + the sum of its
\* children's visits, after any mix of iterations and advances.
RECURSIVE ChildrenVisitsFrom(_, _)
ChildrenVisitsFrom(n, i) ==
    IF i > Len(n.children) THEN 0
    ELSE n.children[i].visits + ChildrenVisitsFrom(n, i + 1)

C26_VisitsSumOfChildren ==
    \A n \in Nodes(root) :
        Len(n.children) >= 1 => n.visits = 1 + ChildrenVisitsFrom(n, 1)

\* after an advance, a node whose finished child was visited again
C26_Witness ==
    /\ committed # <<>>
    /\ \E n \in Nodes(root) :
          /\ Len(n.children) >= 2
          /\ \E i \in 1 .. Len(n.children) :
                IsTerminal(n.children[i]) /\ n.children[i].visits >= 2

\* s is the position the action of n is applied to (for a root without
\* action: the root's position).  n.just_acted is the player to move in s
\* (for a root without action: the opposite of the player to move), and
\* every child's just_acted is the opposite of its parent's.
RECURSIVE JustActedIsMover(_, _)
JustActedIsMover(n, s) ==
    /\ n.just_acted = IF n.action = None THEN other(C4_next_player(s))
                      ELSE C4_next_player(s)
    /\ \A i \in 1 .. Len(n.children) :
          /\ n.children[i].just_acted = other(n.just_acted)
          /\ JustActedIsMover(n.children[i],
                              IF n.action = None THEN s
                              ELSE C4_do_action(s, n.action[1]).state)

\* the tree was constructed with to_move = next_player(state): the fresh
\* root has the other player as just_acted
ConstructedWithNextPlayer ==
    /\ committed = <<>>
    /\ root.action = None
    /\ root.just_acted = other(C4_next_player(state0))

\* C27: if the tree is constructed with first mover next_player(initial
\* state), then always every non-root node's just_acted is the player who
\* made its action, i.e. the player to move in its parent's position, and
\* every child's just_acted is the opposite of its parent's (the root's
\* being the opposite of the player to move at the root).
C27_JustActedIsMover ==
    ConstructedWithNextPlayer => [](JustActedIsMover(root, state))

\* two levels were built under a root constructed with the player to move
C27_Witness ==
    /\ ConstructedWithNextPlayer
    /\ iters >= 3
    /\ \E i \in 1 .. Len(root.children) : Len(root.children[i].children) >= 1

\* every node of the subtree of n whose position has a decisive outcome has
\* nothing untried, no children and the value of that outcome, and a
\* playout from it returns that value without a step; s is the position the
\* action of n is applied to
RECURSIVE FinishedNodesInert(_, _, _, _)
FinishedNodesInert(n, s, outcome0, player) ==
    LET r == IF n.action = None THEN [state |-> s, outcome |-> outcome0]
             ELSE C4_do_action(s, n.action[1])
    IN  /\ r.outcome.tag # "Actions" =>
              /\ n.untried_actions = {}
              /\ n.children = <<>>
              /\ n.value = Outcome_value(r.outcome, player)
              /\ State_playout(r.state, player, r.outcome)
                    = {[ok |-> TRUE, val |-> Outcome_value(r.outcome, player)]}
        /\ \A i \in 1 .. Len(n.children) :
              FinishedNodesInert(n.children[i], r.state, outcome0, player)

\* C28: no action is applied to a position with a decisive outcome: a node
\* created from a Win or Draw has no untried actions, never gets children
\* and keeps its seed value, and a playout stops at the first decisive
\* outcome.
C28_NoActionOnFinishedPosition ==
    FinishedNodesInert(root, state, State_outcome(state0), perspective)

\* a finished node below the root was visited three times or more
C28_Witness ==
    \E n \in Nodes(root) \ {root} :
        /\ IsTerminal(n)
        /\ n.visits >= 3
        /\ n.value \in {Zero, One}

\* the start of the driver's loop: MCTree::new(board, P2, P1) on a board
\* where P1, the human, is to move
DriverStart ==
    /\ committed = <<>>
    /\ root.action = None
    /\ perspective = P2
    /\ root.just_acted = P2
    /\ C4_next_player(state0) = P1

\* the loop advances with the human's move and then calls
\* choose_and_do_action, so that call is reached after an odd number of
\* committed actions; the driver's board is the construct-time board with
\* every committed action applied
DriverLoopSafe ==
    /\ Len(committed) % 2 = 1 =>
          /\ perspective # root.just_acted
          /\ Len(root.children) > 0 =>
                MCTree_choose_and_do_action([root |-> root, state |-> state],
                                            perspective).ok
    /\ Applied(state0, committed) = RootPosition

\* C29: in the human-versus-engine loop (perspective P2, P1 to move, then
\* alternately advance(human move) and choose_and_do_action) the assertion
\* perspective # root.just_acted holds whenever choose_and_do_action is
\* reached and the driver's board equals the reference state with the
\* root's action applied, as long as every advance finds its child.
C29_DriverLoopAssertionHolds == DriverStart => []DriverLoopSafe

\* the engine has answered the human's first move
C29_Witness ==
    /\ Len(committed) = 2
    /\ last.op = "choose_and_do_action"
    /\ ~panicked
    /\ perspective = P2
    /\ root.just_acted = P2
    /\ C4_next_player(state0) = P1

\* C30: in every Connect-4 state reached from initial() through actions of
\* the latest Continuing outcome no cell belongs to both players, no piece
\* sits above a blank cell of its column (row 5 is the bottom row),
\* count(X) - count(O) is 0 or 1 with next = P1 exactly when the counts are
\* equal, and at most one player has_won.
C30_BoardWellFormed ==
    (sim.pc # "idle" /\ sim.game = "c4" /\ sim.origin = "game") =>
        LET s == sim.state
            pieces == s.xs \cup s.os
        IN  /\ s.xs \cap s.os = {}
            /\ pieces \subseteq 0 .. (rows * cols - 1)
            /\ \A r \in 0 .. (rows - 2), c \in 0 .. (cols - 1) :
                  (r * 7 + c) \in pieces => ((r + 1) * 7 + c) \in pieces
            /\ Cardinality(s.xs) - Cardinality(s.os) \in {0, 1}
            /\ (C4_next_player(s) = P1)
                  <=> (Cardinality(s.xs) = Cardinality(s.os))
            /\ ~(C4_has_won(s, P1) /\ C4_has_won(s, P2))

\* a late position where the last action won the game
C30_Witness ==
    /\ sim.pc # "idle"
    /\ sim.game = "c4"
    /\ sim.origin = "game"
    /\ sim.action # None
    /\ Cardinality(sim.state.xs \cup sim.state.os) >= 20
    /\ C4_has_won(sim.state, P2)

====
